---- MODULE Spec2Model ----
(***************************************************************************)
(* benchmark/benchmark.py of tc-build: the benchmark driver, a sequential  *)
(* script.  A string is a sequence of atoms (chunks of characters), so     *)
(* f-strings and ' '.join() are concatenations and a joined command line   *)
(* can be split at its blanks again.  A Python list of strings is a        *)
(* sequence of such strings.  Folders are symbolic absolute paths.         *)
(* Spec is one run of the script; SpecRerun starts it again on the files   *)
(* the run before left behind.  SpecRust is a RustBuilder of               *)
(* tc_build/rust.py under any sequence of configure() and build() calls.   *)
(***************************************************************************)
EXTENDS Integers, Sequences, FiniteSets, TLC

VARIABLES
    MACHINE,                \* platform.machine()
    args,                   \* parsed command line flags
    fs,                     \* the files that exist
    which_hyperfine,        \* shutil.which('hyperfine') finds it
    pc,                     \* position in the script
    status,                 \* "running", "success" (exit 0), "error" (exit 1)
    raised,                 \* the exception that ended the run, "" if none
    gcc_i,                  \* index of the GCC download loop
    downloads,              \* GCC archives requested this run, with the outcome
    builds,                 \* build subprocesses started this run, with the exit
    MEM,                    \* physical memory in whole GiB
    llvm_i,                 \* index of the LLVM_MATRIX loop
    hyperfine_descriptions,
    hyperfine_cmds,
    llvm_toolchains,
    kernel_i,               \* index of the KERNEL_MATRIX loop
    hyperfine_cmd,          \* the timing tool command line assembled last
    assembled,              \* every hyperfine_cmd assembled this run, in order
    shown,                  \* the hyperfine command lines printed this run
    hyperfine_runs,         \* the ones of assembled executed, with the exit
    run,                    \* number of the current run of the script
    prev,                   \* what the previous run of the script did
    builder,                \* the attributes of a RustBuilder that are set
    disk,                   \* the files and folders the RustBuilder works on
    x_runs,                 \* the ./x.py commands started, with the exit
    last,                   \* the last call on the RustBuilder and its end
    calls                   \* number of configure() and build() calls made

vars == <<MACHINE, args, fs, which_hyperfine, pc, status, raised, gcc_i,
          downloads, builds, MEM, llvm_i, hyperfine_descriptions,
          hyperfine_cmds, llvm_toolchains, kernel_i, hyperfine_cmd, assembled,
          shown, hyperfine_runs, run, prev, builder, disk, x_runs, last,
          calls>>

----------------------------------------------------------------------------
(* Bounds of the model *)

MaxRuns == 2

\* configure() and build() calls made on one RustBuilder
MaxCalls == 4

\* os.sysconf('SC_PHYS_PAGES') for 4 KiB pages: just under 30 GiB, 64 GiB
PhysPages == {7864319, 16777216}

Machines == {"aarch64", "x86_64", "riscv64"}

----------------------------------------------------------------------------
(* Strings and lists *)

RECURSIVE Join(_)
\* ' '.join(elems)
Join(elems) ==
    IF elems = <<>> THEN <<>>
    ELSE IF Len(elems) = 1 THEN elems[1]
    ELSE elems[1] \o <<" ">> \o Join(Tail(elems))

\* s.split(' '): the pieces of s between its blanks
Split(s) ==
    LET blanks == SelectSeq([n \in 1..Len(s) |-> n], LAMBDA n : s[n] = " ")
    IN  [k \in 1..(Len(blanks) + 1) |->
            SubSeq(s, IF k = 1 THEN 1 ELSE blanks[k - 1] + 1,
                      IF k = Len(blanks) + 1 THEN Len(s) ELSE blanks[k] - 1)]

\* the arguments a joined command line is split into at its blanks
Words(s) == IF s = <<>> THEN <<>> ELSE Split(s)

\* a command line option, '--' followed by its name
Opt(name) == <<"--", name>>

\* Path(a, b)
Path(a, b) == a \o <<"/">> \o b

\* elem in list
In(elem, list) == \E n \in 1..Len(list) : list[n] = elem

Range(list) == {list[n] : n \in 1..Len(list)}

RECURSIVE Flatten(_)
Flatten(lists) ==
    IF lists = <<>> THEN <<>> ELSE lists[1] \o Flatten(Tail(lists))

----------------------------------------------------------------------------
(* Folders (symbolic absolute paths) *)

RESULTS == <<"RESULTS">>
BUILD_LLVM_PY == <<"REPO_ROOT", "/", "build-llvm.py">>
build_folder == <<"build_folder">>
install_folder == <<"install_folder">>
linux_folder == <<"linux_folder">>
llvm_folder == <<"llvm_folder">>

GCC_VERSION == <<"13.2.0">>
GCC_TUPLES == << <<"aarch64-linux">>, <<"arm-linux-gnueabi">>, <<"x86_64-linux">> >>
GCC_INSTALL == Path(Path(install_folder, <<"gcc">>), GCC_VERSION)
gcc_binary(gcc_tuple) ==
    Path(GCC_INSTALL, <<"bin", "/">> \o gcc_tuple \o <<"-gcc">>)

llvm_build_folder == Path(build_folder, <<"llvm">>)
linux_build_folder == Path(build_folder, <<"linux">>)
allmod_config == Path(build_folder, <<".allmod.config">>)

LinuxMakefile == Path(linux_folder, <<"Makefile">>)
LinuxConfig == Path(linux_folder, <<".config">>)
LlvmCMakeLists == Path(llvm_folder, <<"llvm", "/", "CMakeLists.txt">>)

Files == {linux_folder, llvm_folder, LinuxMakefile, LinuxConfig, LlvmCMakeLists,
          allmod_config} \cup {gcc_binary(t) : t \in Range(GCC_TUPLES)}

\* a file lies in a folder that exists
Consistent(files) ==
    /\ (LinuxMakefile \in files \/ LinuxConfig \in files) => linux_folder \in files
    /\ LlvmCMakeLists \in files => llvm_folder \in files

----------------------------------------------------------------------------
(* Start of a run *)

\* the record kept of a run: its dry-run flag, the memory it read, the timing
\* tool command lines it assembled, and whether it left the GCC download loop
\* ("no"), and then with a download ("downloaded") or without ("found")
NoRun == [dry_run |-> FALSE, MEM |-> 0, assembled |-> <<>>, fetched |-> "no"]

\* RustBuilder.__init__(): nothing is set yet
NewBuilder ==
    [llvm_install_folder |-> FALSE, source |-> FALSE, build |-> FALSE,
     install |-> FALSE, debug |-> FALSE]

\* no bootstrap.toml (the empty text), no folder
EmptyDisk ==
    [bootstrap |-> <<>>, source_folder |-> FALSE, build_folder |-> FALSE,
     gitignore |-> FALSE]

\* benchmark.py makes no RustBuilder
RustIdle ==
    /\ builder = NewBuilder
    /\ disk = EmptyDisk
    /\ x_runs = <<>>
    /\ last = "init"
    /\ calls = 0

Init ==
    /\ RustIdle
    /\ MACHINE \in Machines
    /\ args \in [dry_run : BOOLEAN, show_hyperfine_commands : BOOLEAN,
                 skip_initial_validation : BOOLEAN]
    /\ fs \in {f \in SUBSET Files : Consistent(f)}
    /\ which_hyperfine \in BOOLEAN
    /\ pc = "machine"
    /\ status = "running"
    /\ raised = ""
    /\ gcc_i = 1
    /\ downloads = <<>>
    /\ builds = <<>>
    /\ MEM = 0
    /\ llvm_i = 1
    /\ hyperfine_descriptions = <<>>
    /\ hyperfine_cmds = <<>>
    /\ llvm_toolchains = <<>>
    /\ kernel_i = 1
    /\ hyperfine_cmd = <<>>
    /\ assembled = <<>>
    /\ shown = <<>>
    /\ hyperfine_runs = <<>>
    /\ run = 1
    /\ prev = NoRun

rust == <<builder, disk, x_runs, last, calls>>
host == <<MACHINE, args, which_hyperfine, run, prev, rust>>
fetch == <<gcc_i, downloads>>
llvm == <<MEM, llvm_i, hyperfine_descriptions, hyperfine_cmds, llvm_toolchains>>
timing == <<kernel_i, hyperfine_cmd, assembled, shown, hyperfine_runs>>

\* an uncaught exception or sys.exit(1): the process ends with status 1
Raise(exception) ==
    /\ status' = "error"
    /\ raised' = exception
    /\ UNCHANGED pc

Goto(label) ==
    /\ pc' = label
    /\ UNCHANGED <<status, raised>>

At(label) == status = "running" /\ pc = label

----------------------------------------------------------------------------
(* Precondition checks *)

MachineCheck ==
    /\ At("machine")
    /\ IF MACHINE \notin {"aarch64", "x86_64"}
       THEN Raise("SystemExit")
       ELSE Goto("version")
    /\ UNCHANGED <<host, fs, fetch, builds, llvm, timing>>

\* lsm.get_version() looks into the kernel tree; what it finds is an input:
\* a supported version, an older one, or no version (it raises)
VersionCheck ==
    /\ At("version")
    /\ \E linux_version \in {"new", "old", "none"} :
         IF linux_version = "none"
         THEN Raise("CalledProcessError")
         ELSE IF linux_version = "old"
         THEN Raise("RuntimeError")
         ELSE Goto("which")
    /\ UNCHANGED <<host, fs, fetch, builds, llvm, timing>>

HyperfineCheck ==
    /\ At("which")
    /\ IF ~which_hyperfine
       THEN Raise("FileNotFoundError")
       ELSE Goto("linux_exists")
    /\ UNCHANGED <<host, fs, fetch, builds, llvm, timing>>

LinuxFolderCheck ==
    /\ At("linux_exists")
    /\ IF linux_folder \notin fs
       THEN Raise("FileNotFoundError")
       ELSE Goto("llvm_exists")
    /\ UNCHANGED <<host, fs, fetch, builds, llvm, timing>>

LlvmFolderCheck ==
    /\ At("llvm_exists")
    /\ IF llvm_folder \notin fs
       THEN Raise("FileNotFoundError")
       ELSE Goto("makefile")
    /\ UNCHANGED <<host, fs, fetch, builds, llvm, timing>>

\* mutant: the test of the Makefile inverted
MakefileCheck_Inverted ==
    /\ At("makefile")
    /\ IF LinuxMakefile \in fs
       THEN Raise("RuntimeError")
       ELSE Goto("cmakelists")
    /\ UNCHANGED <<host, fs, fetch, builds, llvm, timing>>

MakefileCheck ==
    /\ At("makefile")
    /\ IF LinuxMakefile \notin fs
       THEN Raise("RuntimeError")
       ELSE Goto("cmakelists")
    /\ UNCHANGED <<host, fs, fetch, builds, llvm, timing>>

CMakeListsCheck ==
    /\ At("cmakelists")
    /\ IF LlvmCMakeLists \notin fs
       THEN Raise("RuntimeError")
       ELSE Goto("dotconfig")
    /\ UNCHANGED <<host, fs, fetch, builds, llvm, timing>>

DotConfigCheck ==
    /\ At("dotconfig")
    /\ IF LinuxConfig \in fs
       THEN Raise("RuntimeError")
       ELSE Goto("gcc")
    /\ UNCHANGED <<host, fs, fetch, builds, llvm, timing>>

----------------------------------------------------------------------------
(* Download GCC to install folder if not already present *)

\* mutant: the marker binary is looked for under a name that never exists
GccFound_WrongName(gcc_tuple) ==
    Path(GCC_INSTALL, <<"bin", "/">> \o gcc_tuple \o <<"gcc">>) \in fs

\* the loop's test: the marker binary of the tuple exists
GccFound(gcc_tuple) == gcc_binary(gcc_tuple) \in fs

GccLoopExit ==
    /\ At("gcc")
    /\ gcc_i > Len(GCC_TUPLES)
    /\ Goto("validation")
    /\ UNCHANGED <<host, fs, fetch, builds, llvm, timing>>

GccSkip ==
    /\ At("gcc")
    /\ gcc_i <= Len(GCC_TUPLES)
    /\ GccFound(GCC_TUPLES[gcc_i])
    /\ gcc_i' = gcc_i + 1
    /\ Goto("gcc")
    /\ UNCHANGED <<host, fs, downloads, builds, llvm, timing>>

\* requests.get(), raise_for_status(), then tar --extract --strip-components=2
\* of the archive, whose bin/<tuple>-gcc is the marker binary
GccDownload ==
    /\ At("gcc")
    /\ gcc_i <= Len(GCC_TUPLES)
    /\ ~GccFound(GCC_TUPLES[gcc_i])
    /\ \E outcome \in {"ok", "http_error", "tar_error"} :
         /\ downloads' = Append(downloads, [gcc_tuple |-> GCC_TUPLES[gcc_i],
                                            outcome |-> outcome])
         /\ CASE outcome = "ok" ->
                  /\ fs' = fs \cup {gcc_binary(GCC_TUPLES[gcc_i])}
                  /\ gcc_i' = gcc_i + 1
                  /\ Goto("gcc")
             [] outcome = "http_error" ->
                  /\ Raise("HTTPError")
                  /\ UNCHANGED <<fs, gcc_i>>
             [] outcome = "tar_error" ->
                  \* a failed extraction may have written part of the archive
                  /\ Raise("CalledProcessError")
                  /\ fs' \in {fs, fs \cup {gcc_binary(GCC_TUPLES[gcc_i])}}
                  /\ UNCHANGED gcc_i
    /\ UNCHANGED <<host, builds, llvm, timing>>

----------------------------------------------------------------------------
(* Initial build configuration *)

CHECK_TARGETS == << <<"clang">>, <<"lld">>, <<"llvm">>, <<"llvm-unit">> >>
TARGETS == << <<"ARM">>, <<"AArch64">>, <<"X86">> >>
BASE_BUILD_LLVM_PY_CMD ==
    << <<"python3">>, BUILD_LLVM_PY,
       Opt("build-folder"), llvm_build_folder,
       Opt("check-targets") >> \o CHECK_TARGETS \o
    << Opt("llvm-folder"), llvm_folder,
       Opt("no-ccache"),
       Opt("quiet-cmake"),
       Opt("targets") >> \o TARGETS

\* the stage 1 build of the initial validation
ValidationLlvmCmd == BASE_BUILD_LLVM_PY_CMD \o << Opt("build-stage1-only") >>

\* if not args.skip_initial_validation
ValidationWanted == ~args.skip_initial_validation

ValidationSkip ==
    /\ At("validation")
    /\ ~ValidationWanted
    /\ Goto("mem")
    /\ UNCHANGED <<host, fs, fetch, builds, llvm, timing>>

\* subprocess.run(build_llvm_py_cmd, check=True) inside the try
ValidationLlvm ==
    /\ At("validation")
    /\ ValidationWanted
    /\ \E returncode \in {0, 1} :
         /\ builds' = Append(builds, [cmd |-> Join(ValidationLlvmCmd),
                                      returncode |-> returncode])
         /\ IF returncode # 0
            THEN Raise("RuntimeError")     \* from CalledProcessError
            ELSE Goto("validation_kernel")
    /\ UNCHANGED <<host, fs, fetch, llvm, timing>>

\* mutant: the GCC download loop placed after the validation build
ValidationKernel_ThenFetch ==
    /\ At("validation_kernel")
    /\ \E returncode \in {0, 1} :
         /\ builds' = Append(builds, [cmd |-> <<"kernel_builder.build()">>,
                                      returncode |-> returncode])
         /\ IF returncode # 0
            THEN Raise("RuntimeError")
            ELSE Goto("gcc")
    /\ UNCHANGED <<host, fs, fetch, llvm, timing>>

\* kernel_builder.build() inside the try
ValidationKernel ==
    /\ At("validation_kernel")
    /\ \E returncode \in {0, 1} :
         /\ builds' = Append(builds, [cmd |-> <<"kernel_builder.build()">>,
                                      returncode |-> returncode])
         /\ IF returncode # 0
            THEN Raise("RuntimeError")     \* from CalledProcessError
            ELSE Goto("mem")
    /\ UNCHANGED <<host, fs, fetch, llvm, timing>>

----------------------------------------------------------------------------
(* Link job limits *)

\* int(os.sysconf('SC_PAGE_SIZE') * os.sysconf('SC_PHYS_PAGES') / 1024**3)
\* for pages of 4096 bytes
MemGiB(phys_pages) == phys_pages \div ((1024 * 1024 * 1024) \div 4096)

FULL_LTO_JL == MEM \div 30
THIN_LTO_JL == MEM \div 15

ReadMem ==
    /\ At("mem")
    /\ \E phys_pages \in PhysPages : MEM' = MemGiB(phys_pages)
    /\ Goto("llvm_loop")
    /\ UNCHANGED <<host, fs, fetch, builds, llvm_i, hyperfine_descriptions,
                   hyperfine_cmds, llvm_toolchains, timing>>

----------------------------------------------------------------------------
(* LLVM build benchmarking *)

LLVM_INSTALL == Path(install_folder, <<"llvm">>)

Item(item_args, full, short) == [args |-> item_args, full |-> full, short |-> short]

LLVM_MATRIX ==
    << Item(<< Opt("build-stage1-only") >>,
            <<"Stage one only">>, <<"stage-one">>),
       Item(<< >>,
            <<"Default two stage build">>, <<"normal">>),
       Item(<< Opt("lto"), <<"thin">> >>,
            <<"Two stage build with ThinLTO">>, <<"thinlto">>),
       Item(<< Opt("lto"), <<"full">> >>,
            <<"Two stage build with LTO">>, <<"lto">>),
       Item(<< Opt("pgo"), <<"kernel-defconfig">> >>,
            <<"Three stage build with PGO against defconfig">>,
            <<"pgo-defconfig">>),
       Item(<< Opt("pgo"), <<"kernel-defconfig">>, <<"kernel-allmodconfig">> >>,
            <<"Three stage build with PGO against defconfig and allmodconfig">>,
            <<"pgo-defconfig-allmodconfig">>),
       Item(<< Opt("lto"), <<"thin">>, Opt("pgo"), <<"kernel-defconfig">> >>,
            <<"Three stage build with ThinLTO and PGO against defconfig">>,
            <<"pgo-defconfig-thinlto">>),
       Item(<< Opt("lto"), <<"full">>, Opt("pgo"), <<"kernel-defconfig">> >>,
            <<"Three stage build with LTO and PGO against defconfig">>,
            <<"pgo-defconfig-lto">>) >>
    \o (IF MACHINE = "x86_64"
        THEN << Item(<< Opt("bolt"), Opt("pgo"), <<"kernel-defconfig">> >>,
                     <<"Three stage build with BOLT and PGO against defconfig">>,
                     <<"pgo-defconfig-bolt">>),
                Item(<< Opt("bolt"), Opt("lto"), <<"thin">>, Opt("pgo"),
                        <<"kernel-defconfig">> >>,
                     <<"Three stage build with BOLT, ThinLTO, and PGO against defconfig">>,
                     <<"pgo-defconfig-bolt-thinlto">>),
                Item(<< Opt("bolt"), Opt("lto"), <<"full">>, Opt("pgo"),
                        <<"kernel-defconfig">> >>,
                     <<"Three stage build with BOLT, LTO, and PGO against defconfig">>,
                     <<"pgo-defconfig-bolt-lto">>) >>
        ELSE << >>)

matrix_install_folder(matrix_item) == Path(LLVM_INSTALL, matrix_item.short)

\* f"LLVM_PARALLEL_LINK_JOBS={jobs}"
LinkJobsDefine(jobs) == <<"LLVM_PARALLEL_LINK_JOBS", "=", ToString(jobs)>>

\* mutant: --linux-folder given to every build
WithLinuxFolder_Always(cmd) == cmd \o << Opt("linux-folder"), linux_folder >>

WithLinuxFolder(cmd) ==
    IF In(Opt("pgo"), cmd)
    THEN cmd \o << Opt("linux-folder"), linux_folder >>
    ELSE cmd

\* mutant: the full LTO builds given the thin LTO job count
WithFullJobs_ThinCount(cmd) ==
    IF In(<<"full">>, cmd)
    THEN cmd \o << Opt("defines"), LinkJobsDefine(THIN_LTO_JL) >>
    ELSE cmd

WithFullJobs(cmd) ==
    IF In(<<"full">>, cmd)
    THEN cmd \o << Opt("defines"), LinkJobsDefine(FULL_LTO_JL) >>
    ELSE cmd

WithThinJobs(cmd) ==
    IF In(<<"thin">>, cmd)
    THEN cmd \o << Opt("defines"), LinkJobsDefine(THIN_LTO_JL) >>
    ELSE cmd

\* the build-llvm.py command of one matrix item, as a list
build_llvm_py_cmd(matrix_item) ==
    WithThinJobs(WithFullJobs(WithLinuxFolder(
        BASE_BUILD_LLVM_PY_CMD
            \o << Opt("install-folder"), matrix_install_folder(matrix_item) >>
            \o matrix_item.args)))

\* one pass of the loop over LLVM_MATRIX
LlvmLoop ==
    /\ At("llvm_loop")
    /\ llvm_i <= Len(LLVM_MATRIX)
    /\ LET matrix_item == LLVM_MATRIX[llvm_i] IN
         /\ hyperfine_descriptions' = Append(hyperfine_descriptions, matrix_item.full)
         /\ llvm_toolchains' =
                Append(llvm_toolchains, Path(matrix_install_folder(matrix_item), <<"bin">>))
         /\ hyperfine_cmds' = Append(hyperfine_cmds, Join(build_llvm_py_cmd(matrix_item)))
    /\ llvm_i' = llvm_i + 1
    /\ Goto("llvm_loop")
    /\ UNCHANGED <<host, fs, fetch, builds, MEM, timing>>

\* mutant: the names taken in reverse order
CommandNames_Reversed(names) ==
    Flatten([n \in 1..Len(names) |->
                << Opt("command-name"), names[Len(names) + 1 - n] >>])

\* [opt for elem in names for opt in ('--command-name', elem)]
CommandNames(names) ==
    Flatten([n \in 1..Len(names) |-> << Opt("command-name"), names[n] >>])

\* mutant: every invocation exports to the same report file
HyperfineOptions_OneReport(report, prepare_folder, runs) ==
    << Opt("export-markdown"), Path(RESULTS, <<"results", ".md">>),
       Opt("prepare"), <<"rm", " ", "-fr", " ">> \o prepare_folder,
       Opt("runs"), runs,
       Opt("shell"), <<"none">>,
       Opt("warmup"), <<"1">> >>

HyperfineOptions(report, prepare_folder, runs) ==
    << Opt("export-markdown"), Path(RESULTS, report),
       Opt("prepare"), <<"rm", " ", "-fr", " ">> \o prepare_folder,
       Opt("runs"), runs,
       Opt("shell"), <<"none">>,
       Opt("warmup"), <<"1">> >>

LlvmHyperfineCmd ==
    << <<"hyperfine">> >>
        \o CommandNames(hyperfine_descriptions)
        \o HyperfineOptions(<<"llvm", ".md">>, llvm_build_folder, <<"5">>)
        \o hyperfine_cmds

LlvmAssemble ==
    /\ At("llvm_loop")
    /\ llvm_i > Len(LLVM_MATRIX)
    /\ hyperfine_cmd' = LlvmHyperfineCmd
    /\ assembled' = Append(assembled, hyperfine_cmd')
    /\ Goto("llvm_hyperfine")
    /\ UNCHANGED <<host, fs, fetch, builds, llvm, kernel_i, shown, hyperfine_runs>>

\* mutant: the dry-run flag is not looked at
RunsHyperfine_Always == TRUE

\* if args.dry_run: ... else: subprocess.run(hyperfine_cmd, check=True)
RunsHyperfine == ~args.dry_run

\* mutant: subprocess.run() without check=True
Hyperfine_Unchecked(next) ==
    /\ shown' = IF args.show_hyperfine_commands
                THEN Append(shown, hyperfine_cmd) ELSE shown
    /\ IF RunsHyperfine
       THEN \E returncode \in {0, 1} :
              /\ hyperfine_runs' = Append(hyperfine_runs,
                        [cell |-> Len(assembled), returncode |-> returncode])
              /\ Goto(next)
       ELSE /\ UNCHANGED hyperfine_runs
            /\ Goto(next)

\* show the command if asked to, then run it unless this is a dry run
Hyperfine(next) ==
    /\ shown' = IF args.show_hyperfine_commands
                THEN Append(shown, hyperfine_cmd) ELSE shown
    /\ IF RunsHyperfine
       THEN \E returncode \in {0, 1} :
              /\ hyperfine_runs' = Append(hyperfine_runs,
                        [cell |-> Len(assembled), returncode |-> returncode])
              /\ IF returncode # 0
                 THEN Raise("CalledProcessError")
                 ELSE Goto(next)
       ELSE /\ UNCHANGED hyperfine_runs
            /\ Goto(next)

LlvmHyperfine ==
    /\ At("llvm_hyperfine")
    /\ Hyperfine("allmod")
    /\ UNCHANGED <<host, fs, fetch, builds, llvm, kernel_i, hyperfine_cmd, assembled>>

----------------------------------------------------------------------------
(* Linux kernel build benchmarking *)

KernelItem(arch, config, cross_compile) ==
    [arch |-> arch, config |-> config, cross_compile |-> cross_compile]

KERNEL_MATRIX ==
    << KernelItem(<<"arm">>, <<"multi_v7_", "defconfig">>, <<"arm-linux-gnueabi", "-">>),
       KernelItem(<<"arm64">>, <<"defconfig">>, <<"aarch64-linux", "-">>),
       KernelItem(<<"x86_64">>, <<"defconfig">>, <<"x86_64-linux", "-">>),
       KernelItem(<<"arm">>, <<"allmodconfig">>, <<"arm-linux-gnueabi", "-">>),
       KernelItem(<<"arm64">>, <<"allmodconfig">>, <<"aarch64-linux", "-">>),
       KernelItem(<<"x86_64">>, <<"allmodconfig">>, <<"x86_64-linux", "-">>) >>

BASE_MAKE_CMD ==
    << <<"make">>, Opt("directory"), linux_folder, Opt("keep-going"),
       Opt("jobs"), <<"NCPUS">>, Opt("silent") >>

BASE_MAKE_VARS ==
    [key \in {"KCFLAGS", "O"} |->
        IF key = "KCFLAGS" THEN <<"-Wno-error">> ELSE linux_build_folder]

\* the make variable names in the order sorted() puts them
SortedKeys == <<"ARCH", "CROSS_COMPILE", "KCFLAGS", "KCONFIG_ALLCONFIG", "LLVM", "O">>

\* sorted(make_variables)
Sorted(make_variables) ==
    SelectSeq(SortedKeys, LAMBDA key : key \in DOMAIN make_variables)

\* {'ARCH': matrix_item['arch'], **BASE_MAKE_VARS}
matrix_make_vars(matrix_item) ==
    BASE_MAKE_VARS @@ [key \in {"ARCH"} |-> matrix_item.arch]

GccMakeVars(matrix_item) ==
    [key \in {"CROSS_COMPILE", "KCONFIG_ALLCONFIG"} |->
        IF key = "CROSS_COMPILE"
        THEN Path(Path(GCC_INSTALL, <<"bin">>), matrix_item.cross_compile)
        ELSE allmod_config]

\* mutant: the LLVM variables keep the cross compiler prefix
LlvmMakeVars_WithCross(llvm_tc) ==
    [key \in {"LLVM", "CROSS_COMPILE"} |->
        IF key = "LLVM" THEN llvm_tc \o <<"/">> ELSE Path(GCC_INSTALL, <<"bin">>)]

LlvmMakeVars(llvm_tc) == [key \in {"LLVM"} |-> llvm_tc \o <<"/">>]

toolchain_make_vars(matrix_item) ==
    << GccMakeVars(matrix_item) >>
        \o [n \in 1..Len(llvm_toolchains) |-> LlvmMakeVars(llvm_toolchains[n])]

\* the make command of one kernel matrix item and one toolchain, as a list
make_command(matrix_item, tc_make_vars) ==
    LET make_variables == tc_make_vars @@ matrix_make_vars(matrix_item)
        keys == Sorted(make_variables)
    IN  BASE_MAKE_CMD
            \o [n \in 1..Len(keys) |-> <<keys[n], "=">> \o make_variables[keys[n]]]
            \o << matrix_item.config, <<"all">> >>

\* needle in haystack, for strings
Contains(haystack, needle) ==
    \E n \in 0..(Len(haystack) - Len(needle)) :
        SubSeq(haystack, n + 1, n + Len(needle)) = needle

KernelRuns(matrix_item) ==
    IF Contains(matrix_item.config, <<"defconfig">>) THEN <<"10">> ELSE <<"5">>

KernelHyperfineCmd(matrix_item) ==
    LET tcs == toolchain_make_vars(matrix_item) IN
    << <<"hyperfine">>, Opt("command-name"), <<"GCC", " ">> \o GCC_VERSION >>
        \o CommandNames([n \in 1..Len(hyperfine_descriptions) |->
                            <<"LLVM", " ", "(">> \o hyperfine_descriptions[n] \o <<")">>])
        \o HyperfineOptions(matrix_item.arch \o <<"-">> \o matrix_item.config \o <<".md">>,
                            BASE_MAKE_VARS["O"], KernelRuns(matrix_item))
        \o [n \in 1..Len(tcs) |-> Join(make_command(matrix_item, tcs[n]))]

\* if not allmod_config.exists(): write it
AllmodConfig ==
    /\ At("allmod")
    /\ fs' = IF allmod_config \notin fs THEN fs \cup {allmod_config} ELSE fs
    /\ Goto("kernel_loop")
    /\ UNCHANGED <<host, fetch, builds, llvm, timing>>

KernelAssemble ==
    /\ At("kernel_loop")
    /\ kernel_i <= Len(KERNEL_MATRIX)
    /\ hyperfine_cmd' = KernelHyperfineCmd(KERNEL_MATRIX[kernel_i])
    /\ assembled' = Append(assembled, hyperfine_cmd')
    /\ Goto("kernel_hyperfine")
    /\ UNCHANGED <<host, fs, fetch, builds, llvm, kernel_i, shown, hyperfine_runs>>

KernelHyperfine ==
    /\ At("kernel_hyperfine")
    /\ Hyperfine("kernel_loop")
    /\ kernel_i' = IF status' = "error" THEN kernel_i ELSE kernel_i + 1
    /\ UNCHANGED <<host, fs, fetch, builds, llvm, hyperfine_cmd, assembled>>

\* the script reaches its end
Finish ==
    /\ At("kernel_loop")
    /\ kernel_i > Len(KERNEL_MATRIX)
    /\ status' = "success"
    /\ pc' = "end"
    /\ UNCHANGED <<host, fs, fetch, builds, llvm, timing, raised>>

Next ==
    \/ MachineCheck
    \/ VersionCheck
    \/ HyperfineCheck
    \/ LinuxFolderCheck
    \/ LlvmFolderCheck
    \/ MakefileCheck
    \/ CMakeListsCheck
    \/ DotConfigCheck
    \/ GccLoopExit
    \/ GccSkip
    \/ GccDownload
    \/ ValidationSkip
    \/ ValidationLlvm
    \/ ValidationKernel
    \/ ReadMem
    \/ LlvmLoop
    \/ LlvmAssemble
    \/ LlvmHyperfine
    \/ AllmodConfig
    \/ KernelAssemble
    \/ KernelHyperfine
    \/ Finish

Spec == Init /\ [][Next]_vars

----------------------------------------------------------------------------
(* The script is started again on the same host, with or without --dry-run  *)
(* and --skip-initial-validation: the files of the previous run are still   *)
(* there.                                                                   *)

PreFetch == {"machine", "version", "which", "linux_exists", "llvm_exists",
             "makefile", "cmakelists", "dotconfig", "gcc"}

Restart ==
    /\ status # "running"
    /\ run < MaxRuns
    /\ run' = run + 1
    /\ prev' = [dry_run |-> args.dry_run, MEM |-> MEM, assembled |-> assembled,
                fetched |-> IF pc \in PreFetch THEN "no"
                            ELSE IF downloads = <<>> THEN "found"
                            ELSE "downloaded"]
    /\ \E dry_run, skip_initial_validation \in BOOLEAN :
         args' = [args EXCEPT !.dry_run = dry_run,
                              !.skip_initial_validation = skip_initial_validation]
    /\ pc' = "machine"
    /\ status' = "running"
    /\ raised' = ""
    /\ gcc_i' = 1
    /\ downloads' = <<>>
    /\ builds' = <<>>
    /\ MEM' = 0
    /\ llvm_i' = 1
    /\ hyperfine_descriptions' = <<>>
    /\ hyperfine_cmds' = <<>>
    /\ llvm_toolchains' = <<>>
    /\ kernel_i' = 1
    /\ hyperfine_cmd' = <<>>
    /\ assembled' = <<>>
    /\ shown' = <<>>
    /\ hyperfine_runs' = <<>>
    /\ UNCHANGED <<MACHINE, fs, which_hyperfine, rust>>

NextRerun == Next \/ Restart

SpecRerun == Init /\ [][NextRerun]_vars

----------------------------------------------------------------------------
(* tc_build/rust.py: RustBuilder *)

bench == <<MACHINE, args, fs, which_hyperfine, pc, status, raised, gcc_i,
           downloads, builds, MEM, llvm_i, hyperfine_descriptions,
           hyperfine_cmds, llvm_toolchains, kernel_i, hyperfine_cmd, assembled,
           shown, hyperfine_runs, run, prev>>

toml_boolean(boolean) == IF boolean THEN "true" ELSE "false"

\* the text configure() writes, as far as it depends on the builder
BootstrapToml ==
    <<"prefix", "=", IF builder.install THEN "install" ELSE "build",
      "debug", "=", toml_boolean(builder.debug)>>

\* Path(self.folders.source, 'bootstrap.toml').exists()
BootstrapExists == disk.bootstrap # <<>>

\* a new RustBuilder, on a disk that may hold a source folder, a
\* bootstrap.toml from earlier and a build folder
InitRust ==
    /\ MACHINE = "x86_64"
    /\ args = [dry_run |-> FALSE, show_hyperfine_commands |-> FALSE,
               skip_initial_validation |-> FALSE]
    /\ fs = {}
    /\ which_hyperfine = FALSE
    /\ pc = "machine"
    /\ status = "running"
    /\ raised = ""
    /\ gcc_i = 1
    /\ downloads = <<>>
    /\ builds = <<>>
    /\ MEM = 0
    /\ llvm_i = 1
    /\ hyperfine_descriptions = <<>>
    /\ hyperfine_cmds = <<>>
    /\ llvm_toolchains = <<>>
    /\ kernel_i = 1
    /\ hyperfine_cmd = <<>>
    /\ assembled = <<>>
    /\ shown = <<>>
    /\ hyperfine_runs = <<>>
    /\ run = 1
    /\ prev = NoRun
    /\ builder = NewBuilder
    /\ \E source_folder, build_dir \in BOOLEAN, bootstrap \in {<<>>, <<"old">>} :
         /\ bootstrap # <<>> => source_folder
         /\ disk = [bootstrap |-> bootstrap, source_folder |-> source_folder,
                    build_folder |-> build_dir, gitignore |-> FALSE]
    /\ x_runs = <<>>
    /\ last = "init"
    /\ calls = 0

\* the caller sets or clears one attribute of the builder
SetAttribute ==
    /\ \E attribute \in DOMAIN NewBuilder :
         builder' = [builder EXCEPT ![attribute] = ~builder[attribute]]
    /\ last' = "set"
    /\ UNCHANGED <<bench, disk, x_runs, calls>>

\* mutant: build() without the test for bootstrap.toml
BuildGuard_NoBootstrapTest ==
    IF ~builder.build THEN "RuntimeError"
    ELSE IF ~builder.source THEN "TypeError"
    ELSE "pass"

\* the guards of build(); Path(None, 'bootstrap.toml') is a TypeError
BuildGuard ==
    IF ~builder.build THEN "RuntimeError"
    ELSE IF ~builder.source THEN "TypeError"
    ELSE IF ~BootstrapExists THEN "RuntimeError"
    ELSE "pass"

\* self.run_cmd([*base_x_cmd, 'install'], cwd=self.folders.source)
RunXInstall(returncode) ==
    /\ x_runs' = Append(x_runs, [cmd |-> <<"./x.py", "install">>,
                                 returncode |-> returncode])
    /\ disk' = [disk EXCEPT !.build_folder = TRUE,
                            !.gitignore = IF returncode = 0 /\ builder.install
                                          THEN TRUE ELSE @]

build ==
    /\ calls < MaxCalls
    /\ calls' = calls + 1
    /\ IF BuildGuard # "pass"
       THEN /\ last' = "build_raised"
            /\ UNCHANGED <<disk, x_runs>>
       ELSE \E returncode \in {0, 1} :
              /\ RunXInstall(returncode)
              /\ last' = IF returncode = 0 THEN "build_ok" ELSE "build_raised"
    /\ UNCHANGED <<bench, builder>>

\* the guards of configure()
ConfigureGuard ==
    IF ~builder.llvm_install_folder THEN "RuntimeError"
    ELSE IF ~builder.source THEN "RuntimeError"
    ELSE IF ~builder.build THEN "RuntimeError"
    ELSE "pass"

\* self.clean_build_folder(): the build folder is removed
clean_build_folder == [disk EXCEPT !.build_folder = FALSE]

configure ==
    /\ calls < MaxCalls
    /\ calls' = calls + 1
    /\ IF ConfigureGuard # "pass"
       THEN /\ last' = "configure_raised"
            /\ UNCHANGED disk
       ELSE IF ~disk.source_folder
       THEN \* open('w') in a folder that does not exist: FileNotFoundError
            /\ last' = "configure_raised"
            /\ UNCHANGED disk
       ELSE \E cleaned \in BOOLEAN :
              /\ disk' = IF cleaned
                         THEN [clean_build_folder EXCEPT !.bootstrap = BootstrapToml]
                         ELSE [disk EXCEPT !.bootstrap = BootstrapToml]
              /\ last' = IF cleaned THEN "configure_ok" ELSE "configure_raised"
    /\ UNCHANGED <<bench, builder, x_runs>>

NextRust ==
    \/ SetAttribute
    \/ configure
    \/ build

SpecRust == InitRust /\ [][NextRust]_vars

----------------------------------------------------------------------------
(* Phases of a run *)

PreChecks == PreFetch \ {"gcc"}
Assembling == {"mem", "llvm_loop", "allmod", "kernel_loop"}
Executing == {"llvm_hyperfine", "kernel_hyperfine"}

\* the validation build is under way, or about to start
Validating ==
    \/ pc = "validation_kernel"
    \/ pc = "validation" /\ ValidationWanted

\* the phases in the order of the script: preconditions, fetch, validation
\* build, then assembling and executing once per timing tool invocation
CodeRank ==
    IF pc \in PreChecks THEN 1
    ELSE IF pc = "gcc" \/ (pc = "validation" /\ ~ValidationWanted) THEN 2
    ELSE IF Validating THEN 3
    ELSE IF pc \in Assembling THEN 4 + 2 * Len(assembled)
    ELSE IF pc \in Executing THEN 3 + 2 * Len(assembled)
    ELSE 4 + 2 * (Len(KERNEL_MATRIX) + 2)

\* the phases in the order preconditions, validation build, fetch, assembling,
\* executing, done
ClaimedRank ==
    IF pc \in PreChecks THEN 1
    ELSE IF Validating THEN 2
    ELSE IF pc = "gcc" \/ pc = "validation" THEN 3
    ELSE IF pc \in Assembling THEN 4
    ELSE IF pc \in Executing THEN 5
    ELSE 6

\* what has happened by a phase
EventsInPhase ==
    /\ downloads # <<>> => CodeRank >= 2
    /\ builds # <<>> => /\ CodeRank >= 3
                        /\ gcc_i > Len(GCC_TUPLES)
                        /\ ValidationWanted
    /\ assembled # <<>> => /\ CodeRank >= 5
                           /\ ValidationWanted => Len(builds) = 2
    /\ hyperfine_runs # <<>> => assembled # <<>>
    /\ status = "success" <=> pc = "end"

\* C1 as stated: a run moves through preconditions, validation build,
\* dependency fetch, assembling, executing, done and never goes back; the
\* validation build comes before the fetch.
C1_ClaimedOrder == [][ClaimedRank' >= ClaimedRank]_vars

\* C1, amended: a run moves through preconditions, dependency fetch, (optional)
\* validation build, then assembling and executing in turn for the toolchain
\* matrix and for each kernel matrix entry, then done, and never goes back to
\* an earlier one of these; the fetch is over before the validation build
\* starts and the validation build is over before anything is assembled.
C1_PhaseOrder == []EventsInPhase /\ [][CodeRank' >= CodeRank]_vars

\* a run that downloaded, validated and benchmarked to the end
C1_Witness ==
    /\ status = "success"
    /\ downloads # <<>>
    /\ Len(builds) = 2
    /\ Len(assembled) = Len(KERNEL_MATRIX) + 1

----------------------------------------------------------------------------
(* Dry runs *)

\* C3: in a dry run no build command is run at all, neither hyperfine nor
\* the stage 1 LLVM build nor the kernel builds of the initial validation.
C3_DryRunBuildsNothing ==
    args.dry_run => builds = <<>> /\ hyperfine_runs = <<>>

----------------------------------------------------------------------------
(* Rejected runs *)

BadPrecondition ==
    \/ LinuxMakefile \notin fs
    \/ LlvmCMakeLists \notin fs
    \/ LinuxConfig \in fs
    \/ MACHINE \notin {"aarch64", "x86_64"}
    \/ ~which_hyperfine

\* C4: with no Makefile, no llvm/CMakeLists.txt, a .config, an unsupported
\* machine or no hyperfine the run never leaves the precondition checks, can
\* only end in an error, and has downloaded, built and timed nothing.
C4_BadPreconditionRejected ==
    BadPrecondition =>
        /\ pc \in PreChecks
        /\ status # "success"
        /\ status = "running" => ENABLED Next
        /\ status = "error" => raised # ""
        /\ downloads = <<>>
        /\ builds = <<>>
        /\ hyperfine_runs = <<>>

\* a kernel tree with a .config is rejected by the last of the checks
C4_Witness ==
    /\ BadPrecondition
    /\ status = "error"
    /\ pc = "dotconfig"
    /\ raised = "RuntimeError"

----------------------------------------------------------------------------
(* Failures *)

\* C5: a subprocess that exits nonzero is the last one the run starts: the
\* run has ended in an error, a failed validation build is followed by no
\* timing tool invocation, a failed timing tool invocation is followed by no
\* assembly and no invocation, and no build or matrix cell is started twice.
C5_FailFast ==
    /\ \A n \in 1..Len(builds) :
         builds[n].returncode # 0 =>
            /\ n = Len(builds)
            /\ status = "error"
            /\ assembled = <<>>
            /\ hyperfine_runs = <<>>
    /\ \A n \in 1..Len(hyperfine_runs) :
         hyperfine_runs[n].returncode # 0 =>
            /\ n = Len(hyperfine_runs)
            /\ status = "error"
            /\ hyperfine_runs[n].cell = Len(assembled)
    /\ \A n, m \in 1..Len(hyperfine_runs) :
         n < m => hyperfine_runs[n].cell < hyperfine_runs[m].cell
    /\ \A n, m \in 1..Len(builds) :
         n < m => builds[n].cmd # builds[m].cmd

\* the timing of the second kernel matrix entry failed
C5_Witness ==
    /\ status = "error"
    /\ Len(hyperfine_runs) = 3
    /\ hyperfine_runs[3].returncode = 1
    /\ kernel_i = 2
    /\ Len(builds) = 2

----------------------------------------------------------------------------
(* Reading assembled command lines *)

IsFlag(word) == Len(word) >= 1 /\ word[1] = "--"

\* the options of a command line, in order
FlagsOf(list) == SelectSeq(list, IsFlag)

NoDuplicates(list) ==
    \A n, m \in 1..Len(list) : n < m => list[n] # list[m]

IsPrefix(list, of) ==
    Len(list) <= Len(of) /\ SubSeq(of, 1, Len(list)) = list

\* the values of KEY=value arguments
VarValues(words, key) ==
    LET hits == SelectSeq(words, LAMBDA w : Len(w) >= 2 /\ w[1] = key /\ w[2] = "=")
    IN  [n \in 1..Len(hits) |-> SubSeq(hits[n], 3, Len(hits[n]))]

\* the arguments that follow an option
RECURSIVE ValuesOf(_, _)
ValuesOf(opt, list) ==
    IF Len(list) < 2 THEN <<>>
    ELSE IF list[1] = opt
         THEN <<list[2]>> \o ValuesOf(opt, SubSeq(list, 3, Len(list)))
         ELSE ValuesOf(opt, Tail(list))

\* hyperfine's options end with --warmup 1; the commands to time follow
WarmupAt(cmd) == CHOOSE n \in 1..Len(cmd) : cmd[n] = Opt("warmup")
Names(cmd) == ValuesOf(Opt("command-name"), SubSeq(cmd, 1, WarmupAt(cmd) - 1))
Commands(cmd) == SubSeq(cmd, WarmupAt(cmd) + 2, Len(cmd))

----------------------------------------------------------------------------
(* build-llvm.py command lines *)

UsesLto(matrix_item) ==
    In(<<"full">>, matrix_item.args) \/ In(<<"thin">>, matrix_item.args)

\* C6 as stated: the options of an entry's command are exactly the base
\* options and the options of the entry's args, none twice, no other.
C6_OnlyBaseAndArgs ==
    \A n \in 1..Len(hyperfine_cmds) :
        LET flags == FlagsOf(Words(hyperfine_cmds[n])) IN
        /\ Range(flags) = Range(FlagsOf(BASE_BUILD_LLVM_PY_CMD))
                            \cup Range(FlagsOf(LLVM_MATRIX[n].args))
        /\ NoDuplicates(flags)

\* C6, amended: an entry's command is the base command, then --install-folder
\* with the entry's install folder, then the entry's args, then --linux-folder
\* when the args have --pgo, then --defines when the args have an LTO mode;
\* no option occurs twice and there is no other option.
C6_BaseInstallArgsTuning ==
    \A n \in 1..Len(hyperfine_cmds) :
        LET words == Words(hyperfine_cmds[n])
            item == LLVM_MATRIX[n]
            base == Len(BASE_BUILD_LLVM_PY_CMD)
        IN  /\ IsPrefix(BASE_BUILD_LLVM_PY_CMD
                            \o << Opt("install-folder"), Path(LLVM_INSTALL, item.short) >>
                            \o item.args,
                        words)
            /\ FlagsOf(words) =
                  FlagsOf(BASE_BUILD_LLVM_PY_CMD)
                    \o << Opt("install-folder") >>
                    \o FlagsOf(item.args)
                    \o (IF In(Opt("pgo"), item.args)
                        THEN << Opt("linux-folder") >> ELSE << >>)
                    \o (IF UsesLto(item) THEN << Opt("defines") >> ELSE << >>)
            /\ NoDuplicates(FlagsOf(words))

\* all entries of an x86_64 host, with BOLT, have their command
C6_Witness ==
    /\ MACHINE = "x86_64"
    /\ Len(hyperfine_cmds) = Len(LLVM_MATRIX)
    /\ Len(LLVM_MATRIX) = 11

\* C8: an entry's command has an LLVM_PARALLEL_LINK_JOBS define exactly when
\* its args name an LTO mode, then once, as the value of --defines, with
\* MEM \div 30 for full and MEM \div 15 for thin: 2 and 4 for 64 GiB.
C8_LinkJobs ==
    \A n \in 1..Len(hyperfine_cmds) :
        LET words == Words(hyperfine_cmds[n])
            item == LLVM_MATRIX[n]
            jobs == VarValues(words, "LLVM_PARALLEL_LINK_JOBS")
        IN  /\ Len(jobs) = IF UsesLto(item) THEN 1 ELSE 0
            /\ UsesLto(item) =>
                 /\ ValuesOf(Opt("defines"), words)
                        = << <<"LLVM_PARALLEL_LINK_JOBS", "=">> \o jobs[1] >>
                 /\ In(<<"full">>, item.args) => jobs[1] = <<ToString(MEM \div 30)>>
                 /\ In(<<"thin">>, item.args) => jobs[1] = <<ToString(MEM \div 15)>>
                 /\ MEM = 64 /\ In(<<"full">>, item.args) => jobs[1] = <<"2">>
                 /\ MEM = 64 /\ In(<<"thin">>, item.args) => jobs[1] = <<"4">>

\* a host with 64 GiB has assembled the thin and the full LTO entries
C8_Witness ==
    /\ MEM = 64
    /\ Len(hyperfine_cmds) = Len(LLVM_MATRIX)
    /\ \E n \in 1..Len(LLVM_MATRIX) : In(<<"full">>, LLVM_MATRIX[n].args)
    /\ \E n \in 1..Len(LLVM_MATRIX) : In(<<"thin">>, LLVM_MATRIX[n].args)

----------------------------------------------------------------------------
(* make command lines *)

\* the kernel matrix entry of the hyperfine command assembled last
KernelEntry == KERNEL_MATRIX[Len(assembled) - 1]

IsKernelCmd == Len(assembled) >= 2 /\ hyperfine_cmd = assembled[Len(assembled)]

BinDir(matrix_item) == Path(Path(LLVM_INSTALL, matrix_item.short), <<"bin">>)

\* C7: each make command of a kernel entry has the entry's ARCH and config
\* target; the first, GCC's, has CROSS_COMPILE with the entry's prefix and
\* KCONFIG_ALLCONFIG and no LLVM=; every other has LLVM=<bin dir>/ of its
\* variant and neither CROSS_COMPILE nor KCONFIG_ALLCONFIG.
C7_MakeVariables ==
    IsKernelCmd =>
        LET cmds == Commands(hyperfine_cmd) IN
        /\ Len(cmds) = Len(LLVM_MATRIX) + 1
        /\ \A n \in 1..Len(cmds) :
             LET words == Words(cmds[n]) IN
             /\ VarValues(words, "ARCH") = << KernelEntry.arch >>
             /\ SubSeq(words, Len(words) - 1, Len(words))
                    = << KernelEntry.config, <<"all">> >>
             /\ IF n = 1
                THEN /\ VarValues(words, "CROSS_COMPILE")
                          = << Path(Path(GCC_INSTALL, <<"bin">>),
                                    KernelEntry.cross_compile) >>
                     /\ VarValues(words, "KCONFIG_ALLCONFIG") = << allmod_config >>
                     /\ VarValues(words, "LLVM") = << >>
                ELSE /\ VarValues(words, "LLVM")
                          = << BinDir(LLVM_MATRIX[n - 1]) \o <<"/">> >>
                     /\ VarValues(words, "CROSS_COMPILE") = << >>
                     /\ VarValues(words, "KCONFIG_ALLCONFIG") = << >>

\* the command of the last kernel matrix entry is assembled
C7_Witness ==
    /\ IsKernelCmd
    /\ Len(assembled) = Len(KERNEL_MATRIX) + 1
    /\ Len(Commands(hyperfine_cmd)) = Len(LLVM_MATRIX) + 1

----------------------------------------------------------------------------
(* Names and commands of a hyperfine command line *)

\* C9: a hyperfine command line has as many --command-name options as
\* commands; in the LLVM one the n-th name and the n-th command are those of
\* the n-th matrix entry; in a kernel one GCC's name and command come first
\* and the n-th LLVM name and command, those of the n-th matrix entry, follow.
C9_NamesPairedInOrder ==
    hyperfine_cmd # <<>> =>
        LET names == Names(hyperfine_cmd)
            cmds == Commands(hyperfine_cmd)
        IN  /\ Len(names) = Len(cmds)
            /\ Len(FlagsOf(hyperfine_cmd)) = Len(names) + 5
            /\ IF IsKernelCmd
               THEN /\ Len(cmds) = Len(LLVM_MATRIX) + 1
                    /\ names[1] = <<"GCC", " ">> \o GCC_VERSION
                    /\ Len(VarValues(Words(cmds[1]), "CROSS_COMPILE")) = 1
                    /\ \A n \in 1..Len(LLVM_MATRIX) :
                         /\ names[n + 1] = <<"LLVM", " ", "(">>
                                             \o LLVM_MATRIX[n].full \o <<")">>
                         /\ VarValues(Words(cmds[n + 1]), "LLVM")
                              = << BinDir(LLVM_MATRIX[n]) \o <<"/">> >>
               ELSE /\ Len(cmds) = Len(LLVM_MATRIX)
                    /\ \A n \in 1..Len(LLVM_MATRIX) :
                         /\ names[n] = LLVM_MATRIX[n].full
                         /\ ValuesOf(Opt("install-folder"), Words(cmds[n]))
                              = << Path(LLVM_INSTALL, LLVM_MATRIX[n].short) >>

\* both kinds of hyperfine command line have been assembled
C9_Witness ==
    /\ IsKernelCmd
    /\ Len(Names(assembled[1])) = Len(LLVM_MATRIX)
    /\ Len(Names(hyperfine_cmd)) = Len(LLVM_MATRIX) + 1

----------------------------------------------------------------------------
(* Dry runs and live runs of the same host *)

Min(a, b) == IF a <= b THEN a ELSE b

\* this run and the one before differ in the dry-run flag, not in the memory
DryAndLive == run > 1 /\ args.dry_run # prev.dry_run /\ MEM = prev.MEM

\* C2: a dry run executes hyperfine not once, assembles the hyperfine command
\* line of the toolchain matrix and of every kernel matrix entry, and each one
\* is the one the live run of the same host assembled.
C2_DryRunAssemblesOnly ==
    /\ args.dry_run => hyperfine_runs = <<>>
    /\ args.dry_run /\ status = "success" =>
            Len(assembled) = Len(KERNEL_MATRIX) + 1
    /\ DryAndLive =>
            \A n \in 1..Min(Len(assembled), Len(prev.assembled)) :
                assembled[n] = prev.assembled[n]

\* a dry run has ended after a live run that timed the whole matrix
C2_Witness ==
    /\ DryAndLive
    /\ args.dry_run
    /\ status = "success"
    /\ Len(prev.assembled) = Len(KERNEL_MATRIX) + 1
    /\ Len(assembled) = Len(KERNEL_MATRIX) + 1

----------------------------------------------------------------------------
(* The GCC download loop *)

Downloaded == [n \in 1..Len(downloads) |-> downloads[n].gcc_tuple]

FetchState ==
    \* a second pass after one that left the loop downloads nothing
    /\ run > 1 /\ prev.fetched # "no" => downloads = <<>>
    \* a failed download or extraction is the end of the run
    /\ \A n \in 1..Len(downloads) :
         downloads[n].outcome # "ok" =>
            /\ n = Len(downloads)
            /\ status = "error"
            /\ pc = "gcc"
            /\ builds = <<>>
            /\ assembled = <<>>
            /\ hyperfine_runs = <<>>
    \* past the loop every marker binary is there
    /\ pc \notin PreFetch => \A t \in Range(GCC_TUPLES) : gcc_binary(t) \in fs
    /\ NoDuplicates(Downloaded)

FetchStep ==
    run' = run =>
        \* an archive is requested only for the tuple at hand, its marker absent
        /\ downloads' # downloads =>
              /\ Len(downloads') = Len(downloads) + 1
              /\ downloads'[Len(downloads')].gcc_tuple = GCC_TUPLES[gcc_i]
              /\ gcc_binary(GCC_TUPLES[gcc_i]) \notin fs
        \* a tuple is passed over only with its marker present, and untouched
        /\ gcc_i' # gcc_i /\ downloads' = downloads =>
              /\ gcc_binary(GCC_TUPLES[gcc_i]) \in fs
              /\ fs' = fs
        \* no marker binary is removed
        /\ \A t \in Range(GCC_TUPLES) :
              gcc_binary(t) \in fs => gcc_binary(t) \in fs'

\* C10: an archive is downloaded and extracted exactly for the tuples whose
\* marker binary bin/<tuple>-gcc is absent, the others are left as they are;
\* a pass after one whose downloads all succeeded downloads nothing; a failed
\* download or extraction ends the run before any build or timing.
C10_FetchIfAbsent == []FetchState /\ [][FetchStep]_vars

\* the first pass downloaded and left the loop, the second is past the loop
C10_Witness ==
    /\ run = 2
    /\ prev.fetched = "downloaded"
    /\ pc \notin PreFetch
    /\ downloads = <<>>

----------------------------------------------------------------------------
(* Invocations and report files of a live run *)

\* the files a hyperfine command line exports to
Reports(cmd) ==
    ValuesOf(Opt("export-markdown"), SubSeq(cmd, 1, WarmupAt(cmd) - 1))

\* the report file of the n-th cell: the toolchain matrix, then the kernel
\* matrix entries in table order
CellReport(n) ==
    IF n = 1 THEN Path(RESULTS, <<"llvm", ".md">>)
    ELSE Path(RESULTS, KERNEL_MATRIX[n - 1].arch \o <<"-">>
                            \o KERNEL_MATRIX[n - 1].config \o <<".md">>)

\* C11: a live run invokes hyperfine for the toolchain matrix first and then
\* for the kernel matrix entries in table order, each once; with no failure
\* it ends having invoked all of them; every invocation exports to the one
\* report file of its cell, and no two of a run export to the same file.
C11_OncePerCellOwnReport ==
    /\ \A n \in 1..Len(assembled) : Reports(assembled[n]) = << CellReport(n) >>
    /\ \A n, m \in 1..Len(assembled) :
         n # m => Reports(assembled[n]) # Reports(assembled[m])
    /\ ~args.dry_run =>
         /\ \A n \in 1..Len(hyperfine_runs) : hyperfine_runs[n].cell = n
         /\ Len(assembled) - 1 <= Len(hyperfine_runs)
         /\ Len(hyperfine_runs) <= Len(assembled)
         /\ status = "success" =>
              /\ Len(hyperfine_runs) = Len(KERNEL_MATRIX) + 1
              /\ \A n \in 1..Len(hyperfine_runs) : hyperfine_runs[n].returncode = 0

\* a live run has timed the toolchain matrix and all kernel matrix entries
C11_Witness ==
    /\ ~args.dry_run
    /\ status = "success"
    /\ Len(hyperfine_runs) = Len(KERNEL_MATRIX) + 1
    /\ Len(KERNEL_MATRIX) = 6

----------------------------------------------------------------------------
(* The guards of RustBuilder *)

AllSet == builder.llvm_install_folder /\ builder.source /\ builder.build

RustStep ==
    \* ./x.py install starts only with a build folder set and a bootstrap.toml
    /\ x_runs' # x_runs =>
          /\ builder.build
          /\ builder.source
          /\ BootstrapExists
          /\ Len(x_runs') = Len(x_runs) + 1
          /\ last' \in {"build_ok", "build_raised"}
    \* a guard of build() that raises runs nothing and writes nothing
    /\ (calls' # calls /\ last' = "build_raised"
            /\ ~(builder.build /\ builder.source /\ BootstrapExists)) =>
          x_runs' = x_runs /\ disk' = disk
    \* so does a guard of configure()
    /\ (calls' # calls /\ last' = "configure_raised" /\ ~AllSet) =>
          x_runs' = x_runs /\ disk' = disk
    \* bootstrap.toml is written by configure() alone, with all three set
    /\ disk'.bootstrap # disk.bootstrap =>
          /\ AllSet
          /\ last' \in {"configure_ok", "configure_raised"}
          /\ disk'.bootstrap = BootstrapToml
    \* a call with everything in place does not end at a guard
    /\ (calls' # calls /\ last' \in {"build_ok", "build_raised"}
            /\ builder.build /\ builder.source /\ BootstrapExists) =>
          x_runs' # x_runs

\* C12: whatever configure() and build() calls are made, ./x.py install is
\* started only with a build folder set and bootstrap.toml in the source
\* folder; a guard that raises runs nothing and writes no file; configure()
\* writes bootstrap.toml only with the LLVM install, source and build folders
\* set; right after a configure() that returned, build() passes its guards.
C12_RustGuards ==
    /\ [](last = "configure_ok" => BuildGuard = "pass" /\ AllSet)
    /\ [][RustStep]_vars

\* build() has run ./x.py install right after a configure() that returned
C12_Witness ==
    /\ last = "build_ok"
    /\ Len(x_runs) = 1
    /\ calls = 2
    /\ disk.bootstrap = BootstrapToml
    /\ builder.install
    /\ disk.gitignore

====
